---- MODULE Spec2Model ----
(***************************************************************************)
(* A model of simplemma: the per-token resolution engine of simplemma.py   *)
(* (lemmatize, is_known and the search helpers they call, the module-level *)
(* LANG_DATA and the lru_cache of lemmatize) and the language detector of  *)
(* langdetect.py.                                                           *)
(*                                                                         *)
(* A Python str is a sequence of one-character strings; the value None is  *)
(* the constant None below.  The case conversions cover ASCII letters.     *)
(***************************************************************************)
EXTENDS Integers, Sequences, FiniteSets, TLC

VARIABLES dicts, LANG_DATA, cache, args, ret, calls

vars == <<dicts, LANG_DATA, cache, args, ret, calls>>

(***************************************************************************)
(* Python values                                                           *)
(***************************************************************************)

\* Python's None where a str or None is expected (no str equals it: its one
\* element is not a single character).
None == <<"None">>

\* An exception leaving a function, in place of its return value.
IndexError == <<"IndexError">>

UnboundLocalError == <<"UnboundLocalError">>

TypeError == <<"TypeError">>

ValueError == <<"ValueError">>

ZeroDivisionError == <<"ZeroDivisionError">>

Exceptions == {IndexError, UnboundLocalError, TypeError, ValueError, ZeroDivisionError}

\* A token argument that is not a str (isinstance(token, str) is False).
NotAStr == <<"int">>

LowerLetters == <<"a","b","c","d","e","f","g","h","i","j","k","l","m",
                  "n","o","p","q","r","s","t","u","v","w","x","y","z">>

UpperLetters == <<"A","B","C","D","E","F","G","H","I","J","K","L","M",
                  "N","O","P","Q","R","S","T","U","V","W","X","Y","Z">>

Digits == {"0","1","2","3","4","5","6","7","8","9"}

IndexIn(c, letters) == CHOOSE i \in 1..Len(letters) : letters[i] = c

IsUpperCh(c) == \E i \in 1..Len(UpperLetters) : UpperLetters[i] = c

IsLowerCh(c) == \E i \in 1..Len(LowerLetters) : LowerLetters[i] = c

IsAlphaCh(c) == IsUpperCh(c) \/ IsLowerCh(c)

LowerCh(c) == IF IsUpperCh(c) THEN LowerLetters[IndexIn(c, UpperLetters)] ELSE c

UpperCh(c) == IF IsLowerCh(c) THEN UpperLetters[IndexIn(c, LowerLetters)] ELSE c

\* str.lower()
Lower(s) == [i \in 1..Len(s) |-> LowerCh(s[i])]

\* str.capitalize(): the first character upper-cased, the rest lower-cased
Capitalize(s) == [i \in 1..Len(s) |-> IF i = 1 THEN UpperCh(s[i]) ELSE LowerCh(s[i])]

\* str.isnumeric(): not empty and every character numeric
IsNumeric(s) == Len(s) > 0 /\ \A i \in 1..Len(s) : s[i] \in Digits

\* token[:-count] and token[-count:] for 1 <= count <= len(token)
Prefix(token, count) == SubSeq(token, 1, Len(token) - count)

Suffix(token, count) == SubSeq(token, Len(token) - count + 1, Len(token))

\* dict.get(key): the value, or None
Get(datadict, key) == IF key \in DOMAIN datadict THEN datadict[key] ELSE None

(***************************************************************************)
(* _levenshtein_dist                                                       *)
(***************************************************************************)

\* list(range(n + 1)) and [0] * (n + 1), with Python index k at position k + 1
RangeList(n) == [k \in 1..(n + 1) |-> k - 1]

ZeroList(n) == [k \in 1..(n + 1) |-> 0]

\* lines 177-187: 1 + the least of a1, a2, a3, by the code's comparisons
LevMin3Swapped(a1, a2, a3) ==
    IF a1 > a2
    THEN (IF a2 > a3 THEN 1 + a3 ELSE 1 + a2)
    ELSE (IF a1 > a3 THEN 1 + a1 ELSE 1 + a3)

LevMin3(a1, a2, a3) ==
    IF a1 > a2
    THEN (IF a2 > a3 THEN 1 + a3 ELSE 1 + a2)
    ELSE (IF a1 > a3 THEN 1 + a3 ELSE 1 + a1)

\* the inner loop "for c2 in str2" from its j-th character on; r2 is the row
\* being written
RECURSIVE LevInner(_, _, _, _, _)
LevInner(c1, str2, r1, r2, j) ==
    IF j > Len(str2) THEN r2
    ELSE LevInner(c1, str2, r1,
                  [r2 EXCEPT ![j + 1] = IF c1 = str2[j] THEN r1[j]
                                        ELSE LevMin3(r2[j], r1[j], r1[j + 1])],
                  j + 1)

\* the outer loop "for c1 in str1" after i characters; the rows swap at the
\* end of each pass
RECURSIVE LevOuter(_, _, _, _, _)
LevOuter(str1, str2, r1, r2, i) ==
    IF i = Len(str1) THEN r1[Len(r1)]
    ELSE LevOuter(str1, str2,
                  LevInner(str1[i + 1], str2, r1, [r2 EXCEPT ![1] = i + 1], 1),
                  r1, i + 1)

\* lines 167-192, str1 being the shorter string
LevRows(str1, str2) ==
    LevOuter(str1, str2, RangeList(Len(str2)), ZeroList(Len(str2)), 0)

levenshtein_dist(str1, str2) ==
    IF str1 = str2 THEN 0
    ELSE IF Len(str1) > Len(str2) THEN LevRows(str2, str1)
    ELSE LevRows(str1, str2)

(***************************************************************************)
(* Module constants of simplemma.py                                        *)
(***************************************************************************)

AFFIXLEN == 2

LONGAFFIXLEN == 5

MINCOMPLEN == 4

LANGLIST == {"bg", "ca", "cs", "cy", "da", "de", "el", "en", "es", "et", "fa",
             "fi", "fr", "ga", "gd", "gl", "gv", "hu", "hy", "id", "it", "ka",
             "la", "lb", "lt", "lv", "mk", "nb", "nl", "pl", "pt", "ro", "ru",
             "sk", "sl", "sv", "tr", "uk"}

BETTER_LOWER == {"bg", "es", "hy", "lt", "lv", "pt", "sk"}

LONGER_AFFIXES == {"et", "fi", "hu", "hy", "lt", "ru"}

HYPHENS == {"-", "_"}

(***************************************************************************)
(* _simple_search, _greedy_search                                          *)
(*                                                                         *)
(* A local variable of the code that is read more than once is a parameter *)
(* of the operator that models the code after its assignment.              *)
(***************************************************************************)

\* "x if x is not None else y"
OrElse(x, y) == IF x # None THEN x ELSE y

\* lines 205-212, token being the token after line 204; token[0].isupper()
\* raises IndexError on the empty string
SimpleSearchCase(token, datadict) ==
    IF token \in DOMAIN datadict THEN datadict[token]
    ELSE IF Len(token) = 0 THEN IndexError
    ELSE IF IsUpperCh(token[1]) THEN Get(datadict, Lower(token))
    ELSE Get(datadict, Capitalize(token))

SimpleSearchLowerFirst(token, datadict, initial) ==
    SimpleSearchCase(Lower(token), datadict)

simple_search(token, datadict, initial) ==
    SimpleSearchCase(IF initial THEN Lower(token) ELSE token, datadict)

\* the while condition of _greedy_search
GreedyMayHop(candidate, datadict, distance) ==
    /\ candidate \in DOMAIN datadict
    /\ Len(datadict[candidate]) < Len(candidate)
    /\ levenshtein_dist(datadict[candidate], candidate) <= distance

\* the while loop of _greedy_search with i hops taken so far: the candidate
\* it ends with and the number of hops taken
RECURSIVE GreedyLoop(_, _, _, _, _)
GreedyLoop(candidate, datadict, steps, distance, i) ==
    IF GreedyMayHop(candidate, datadict, distance)
    THEN IF i + 1 >= steps
         THEN [candidate |-> datadict[candidate], hops |-> i + 1]
         ELSE GreedyLoop(datadict[candidate], datadict, steps, distance, i + 1)
    ELSE [candidate |-> candidate, hops |-> i]

greedy_search(candidate, datadict, steps, distance) ==
    GreedyLoop(candidate, datadict, steps, distance, 0).candidate

(***************************************************************************)
(* _decompose, _affix_search, _suffix_search                               *)
(***************************************************************************)

\* bool(s) of a str
Truthy(s) == Len(s) > 0

\* lines 259-271: no shorter second part was found; newcandidate is the
\* second _simple_search of part2
DecomposeBackup(part1, part2, lempart2, newcandidate, affixlen, plan_b) ==
    IF Truthy(newcandidate) /\ Len(newcandidate) <= Len(part2)
    THEN <<part1 \o Lower(newcandidate), plan_b>>
    ELSE IF Len(lempart2) < Len(part2) + affixlen
    THEN <<None, part1 \o Lower(lempart2)>>
    ELSE <<None, plan_b>>

\* lines 255-274: newcandidate is the result of _greedy_search
DecomposeShorten(part1, part2, lempart2, newcandidate, datadict, affixlen, plan_b) ==
    IF Truthy(newcandidate) /\ Len(newcandidate) < Len(part2)
    THEN <<part1 \o Lower(newcandidate), plan_b>>
    ELSE DecomposeBackup(part1, part2, lempart2,
                         simple_search(part2, datadict, FALSE), affixlen, plan_b)

\* lines 249-252
Substitute(part2, lempart2) ==
    IF IsUpperCh(lempart2[1]) THEN Lower(part2) ELSE Capitalize(part2)

\* lines 246-274, a split point at which both parts are found: the
\* (candidate, plan_b) the loop breaks with
DecomposeBoth(part1, part2, lempart2, datadict, affixlen, plan_b) ==
    DecomposeShorten(part1, part2, lempart2,
                     greedy_search(Substitute(part2, lempart2), datadict, 1, 5),
                     datadict, affixlen, plan_b)

\* whether the tail of a split is discarded as an affix (line 238)
IsAffixStrict(count, affixlen) == count < affixlen

IsAffix(count, affixlen) == count <= affixlen

\* part2 after lines 242-243
CasedPart2(token, count) ==
    IF IsUpperCh(token[1]) THEN Capitalize(Suffix(token, count))
    ELSE Suffix(token, count)

\* the for loop of _decompose from split point `count` on; DecomposeHead is
\* its body after line 235 and DecomposeTail its body after line 244
RECURSIVE DecomposeLoop(_, _, _, _, _)
DecomposeTailEnds(token, datadict, affixlen, count, plan_b, part2, lempart2) ==
    IF lempart2 = None
    THEN <<None, plan_b>>
    ELSE DecomposeBoth(Prefix(token, count), part2, lempart2, datadict,
                       affixlen, plan_b)

DecomposeTail(token, datadict, affixlen, count, plan_b, part2, lempart2) ==
    IF lempart2 = None
    THEN DecomposeLoop(token, datadict, affixlen, count + 1, plan_b)
    ELSE DecomposeBoth(Prefix(token, count), part2, lempart2, datadict,
                       affixlen, plan_b)

DecomposeHead(token, datadict, affixlen, count, plan_b, lempart1) ==
    IF lempart1 = None
    THEN DecomposeLoop(token, datadict, affixlen, count + 1, plan_b)
    ELSE IF IsAffix(count, affixlen) THEN <<lempart1, plan_b>>
    ELSE DecomposeTail(token, datadict, affixlen, count, plan_b,
                       CasedPart2(token, count),
                       simple_search(CasedPart2(token, count), datadict, FALSE))

DecomposeLoop(token, datadict, affixlen, count, plan_b) ==
    IF count > Len(token) - MINCOMPLEN THEN <<None, plan_b>>
    ELSE DecomposeHead(token, datadict, affixlen, count, plan_b,
                       simple_search(Prefix(token, count), datadict, FALSE))

\* _decompose: the pair (candidate, plan_b)
decompose(token, datadict, affixlen) ==
    DecomposeLoop(token, datadict, affixlen, 1, None)

\* the for loop of _affix_search at affix length `length`, res being what
\* _decompose returned for it: the (candidate, plan_b) the loop ends with
RECURSIVE AffixLoop(_, _, _)
AffixNext(wordform, datadict, length, res) ==
    IF res[1] # None \/ length - 1 <= 1 THEN res
    ELSE AffixLoop(wordform, datadict, length - 1)

AffixLoop(wordform, datadict, length) ==
    AffixNext(wordform, datadict, length, decompose(wordform, datadict, length))

\* lines 307-309
AffixResult(res) == IF res[1] = None /\ res[2] # None THEN res[2] ELSE res[1]

\* range(maxlen, 1, -1) is empty for maxlen < 2, and candidate is then unbound
affix_search(wordform, datadict, maxlen) ==
    IF maxlen < 2 THEN UnboundLocalError
    ELSE AffixResult(AffixLoop(wordform, datadict, maxlen))

\* the for loop of _suffix_search from `count` on: (lastpart, lastcount)
RECURSIVE SuffixLoop(_, _, _, _, _)
SuffixNext(token, datadict, count, lastpart, lastcount, part) ==
    IF part # None /\ Len(part) <= count
    THEN SuffixLoop(token, datadict, count + 1, part, count)
    ELSE SuffixLoop(token, datadict, count + 1, lastpart, lastcount)

SuffixLoop(token, datadict, count, lastpart, lastcount) ==
    IF count > Len(token) - MINCOMPLEN THEN <<lastpart, lastcount>>
    ELSE SuffixNext(token, datadict, count, lastpart, lastcount,
                    simple_search(Capitalize(Suffix(token, count)), datadict, FALSE))

\* lines 319-321
SuffixResult(token, res) ==
    IF res[2] > 0 THEN Prefix(token, res[2]) \o Lower(res[1]) ELSE None

suffix_search(token, datadict) ==
    SuffixResult(token, SuffixLoop(token, datadict, MINCOMPLEN, None, 0))

(***************************************************************************)
(* _dehyphen                                                               *)
(***************************************************************************)

HasHyphen(token) == \E i \in 1..Len(token) : token[i] \in HYPHENS

\* the position of the last separator of a token that has one
LastHyphen(token) ==
    CHOOSE i \in 1..Len(token) :
        token[i] \in HYPHENS /\ \A j \in (i + 1)..Len(token) : token[j] \notin HYPHENS

\* splitted[-1] of HYPHEN_REGEX.split(token): what follows the last separator
LastSegment(token) == SubSeq(token, LastHyphen(token) + 1, Len(token))

\* ''.join(splitted[:-1]): the token up to and including its last separator
UpToLastHyphen(token) == SubSeq(token, 1, LastHyphen(token))

\* ''.join of the segments that are not separators
WithoutHyphens(token) == SelectSeq(token, LAMBDA c : c \notin HYPHENS)

\* lines 284-286
Joined(token) ==
    IF IsUpperCh(token[1]) THEN Capitalize(Lower(WithoutHyphens(token)))
    ELSE Lower(WithoutHyphens(token))

\* lines 292-293, found being the result of line 290
SearchFurther(segment, found, datadict, greedy) ==
    IF found = None /\ greedy THEN affix_search(segment, datadict, AFFIXLEN)
    ELSE found

\* lines 295-298, subcandidate being the lemma of the last segment
Recombined(token, subcandidate) ==
    IF subcandidate = None THEN None ELSE UpToLastHyphen(token) \o subcandidate

\* lines 290-298 for the last segment
DehyphenLast(token, segment, datadict, greedy) ==
    Recombined(token, SearchFurther(segment, simple_search(segment, datadict, FALSE),
                                    datadict, greedy))

\* lines 287-298, subcandidate being the form without hyphen
DehyphenJoined(token, subcandidate, datadict, greedy) ==
    IF subcandidate \in DOMAIN datadict THEN datadict[subcandidate]
    ELSE DehyphenLast(token, LastSegment(token), datadict, greedy)

dehyphen(token, datadict, greedy) ==
    IF ~HasHyphen(token) THEN None
    ELSE IF Len(LastSegment(token)) = 0 THEN None
    ELSE DehyphenJoined(token, Joined(token), datadict, greedy)

(***************************************************************************)
(* apply_rules (simplemma/rules.py)                                        *)
(***************************************************************************)

EndsWith(token, suffix) ==
    Len(token) >= Len(suffix) /\ Suffix(token, Len(suffix)) = suffix

\* The suffix rules of a language, tried in order: <<suffix, replacement>>.
\* Only English has a rule set here.
RULES(lang) ==
    IF lang = "en"
    THEN << <<(<<"i","e","s">>), (<<"y">>)>>, <<(<<"e","d">>), (<<>>)>> >>
    ELSE <<>>

\* the shortest token a rule applies to
RULE_MINLEN == 6

RECURSIVE ApplyRulesFrom(_, _, _)
ApplyRulesFrom(token, rules, k) ==
    IF k > Len(rules) THEN None
    ELSE IF EndsWith(token, rules[k][1])
    THEN Prefix(token, Len(rules[k][1])) \o rules[k][2]
    ELSE ApplyRulesFrom(token, rules, k + 1)

apply_rules(token, lang) ==
    IF Len(token) < RULE_MINLEN THEN None
    ELSE ApplyRulesFrom(token, RULES(lang), 1)

(***************************************************************************)
(* _return_lemma                                                           *)
(***************************************************************************)

\* lines 344-357
MaxAffixLen(lang) == IF lang \in LONGER_AFFIXES THEN LONGAFFIXLEN ELSE AFFIXLEN

GreedyPart(token, candidate, datadict, lang) ==
    IF candidate = None
    THEN OrElse(affix_search(token, datadict, MaxAffixLen(lang)),
                suffix_search(token, datadict))
    ELSE greedy_search(candidate, datadict, 1, 5)

\* the length up to which a token is not decomposed (line 341)
SHORT_TOKEN == 8

\* whether _return_lemma stops at line 342
StopsHereAlways(token, greedy) == Len(token) <= SHORT_TOKEN /\ ~greedy

StopsHere(token, greedy) == Len(token) <= SHORT_TOKEN \/ ~greedy

\* lines 341-357
ReturnCandidate(token, candidate, datadict, greedy, lang) ==
    IF StopsHere(token, greedy) THEN candidate
    ELSE GreedyPart(token, candidate, datadict, lang)

\* lines 334-339, candidate being the result of the search and the rules
Dehyphenated(token, candidate, datadict, greedy) ==
    IF candidate = None THEN dehyphen(token, datadict, greedy)
    ELSE OrElse(dehyphen(candidate, datadict, greedy), candidate)

\* lines 331-332, found being the result of _simple_search
WithRules(token, found, lang) ==
    IF found = None THEN apply_rules(token, lang) ELSE found

\* lines 330-357; an IndexError of _simple_search leaves the function
ReturnFound(token, found, datadict, greedy, lang) ==
    IF found = IndexError THEN IndexError
    ELSE ReturnCandidate(token,
                         Dehyphenated(token, WithRules(token, found, lang),
                                      datadict, greedy),
                         datadict, greedy, lang)

return_lemma(token, datadict, greedy, lang, initial) ==
    IF IsNumeric(token) THEN token
    ELSE ReturnFound(token, simple_search(token, datadict, initial),
                     datadict, greedy, lang)

(***************************************************************************)
(* The language tables (the pickled dictionaries _load_pickle returns)     *)
(***************************************************************************)

cat == <<"c","a","t">>
cats == <<"c","a","t","s">>
Rose == <<"R","o","s","e">>
rose == <<"r","o","s","e">>
rise == <<"r","i","s","e">>
roze == <<"r","o","z","e">>
laws == <<"l","a","w","s">>
law == <<"l","a","w">>
by_laws == <<"b","y","-","l","a","w","s">>
build == <<"b","u","i","l","d">>
building == build \o <<"i","n","g">>
buildings == building \o <<"s">>
buildingly == building \o <<"l","y">>
namai == <<"n","a","m","a","i">>
namas == <<"n","a","m","a","s">>
Zebra == <<"Z","e","b","r","a">>
twelve == <<"1","2">>
hyphen == <<"-">>
empty == <<>>

\* the entries the English and the Lithuanian tables are drawn from
EN_ENTRIES ==
    (cats :> cat) @@ (cat :> cat) @@ (Rose :> Rose) @@ (rose :> rise) @@
    (by_laws :> by_laws) @@ (laws :> law) @@ (buildings :> building) @@
    (building :> build) @@ (build :> build)

LT_ENTRIES ==
    (namai :> namas) @@ (namas :> namas) @@ (rose :> roze)

Without(table, keys) == [k \in (DOMAIN table) \ keys |-> table[k]]

\* the tables a language may have: its entries without some optional ones
EN_TABLES == { Without(EN_ENTRIES, X) : X \in SUBSET {rose, laws} }

LT_TABLES == { LT_ENTRIES }

\* the supported codes a table is loaded for ("lt" is in BETTER_LOWER and in
\* LONGER_AFFIXES, "en" in neither) and a code that is not supported
LOADABLE == {"en", "lt"}

UNSUPPORTED == "xx"

TablesOf(code) == IF code = "en" THEN EN_TABLES ELSE LT_TABLES

(***************************************************************************)
(* _load_data, _update_lang_data, lemmatize, is_known                      *)
(*                                                                         *)
(* dicts[code] is the table _load_pickle(code) returns.  LANG_DATA is the  *)
(* list of the loaded LangDict objects, each held by its code: its dict is *)
(* dicts[code].  cache is the lru_cache of lemmatize, from the call's      *)
(* arguments to the value it returned.  args and ret are the last call     *)
(* made and what it returned or raised; calls counts the calls made.       *)
(***************************************************************************)

\* The lang argument: a code (a str), a tuple of codes, or anything else
\* (the default, None).
StrLang(code) == [kind |-> "str", codes |-> <<code>>]

TupleLang(codes) == [kind |-> "tuple", codes |-> codes]

NoLang == [kind |-> "none", codes |-> <<>>]

\* the boolean results of is_known
True == <<"True">>

False == <<"False">>

NoCall == [fn |-> "none"]

EmptyCache == [k \in {} |-> None]

\* the tokens and the lang arguments of the calls made
TOKENS == {empty, hyphen, twelve, cats, Rose, by_laws, build, buildings,
           buildingly, namai, Zebra, NotAStr}

LANG_ARGS ==
    { NoLang, StrLang("en"), StrLang("lt"), TupleLang(<<>>),
      TupleLang(<<"en", "lt">>), TupleLang(<<"lt", "en">>),
      TupleLang(<<UNSUPPORTED, "lt">>) }

\* _return_lemma on the tokens, tables and flags of the calls made, worked
\* out once
ReturnLemmaTable ==
    [token \in TOKENS \ {NotAStr}, code \in LOADABLE,
     datadict \in EN_TABLES \cup LT_TABLES, greedy \in BOOLEAN, initial \in BOOLEAN
       |-> return_lemma(token, datadict, greedy, code, initial)] @@ <<>>

load_data(langs) == SelectSeq(langs, LAMBDA code : code \in LANGLIST)

\* whether _update_lang_data reloads LANG_DATA and clears the cache
\* (line 153), for the tuple of codes asked for
Reloads(langdata, codes) == langdata = <<>> \/ langdata # codes

\* LANG_DATA after _update_lang_data
UpdatedLangData(langdata, codes) ==
    IF Reloads(langdata, codes) THEN load_data(codes) ELSE langdata

\* the for loop of lemmatize from the i-th loaded language on: the first
\* candidate that is not None (or the exception _return_lemma raised)
RECURSIVE LastCandidate(_, _, _, _, _)
LastCandidate(token, langdata, greedy, initial, i) ==
    IF i > Len(langdata) THEN None
    ELSE OrElse(LastCandidate(token, langdata, greedy, initial, i + 1),
                ReturnLemmaTable[token, langdata[i], dicts[langdata[i]],
                                 greedy, initial])

RECURSIVE FirstCandidate(_, _, _, _, _)
FirstCandidate(token, langdata, greedy, initial, i) ==
    IF i > Len(langdata) THEN None
    ELSE OrElse(ReturnLemmaTable[token, langdata[i], dicts[langdata[i]],
                                 greedy, initial],
                FirstCandidate(token, langdata, greedy, initial, i + 1))

\* the code whose BETTER_LOWER membership decides the fallback (line 399)
FallbackCodeLast(codes) == codes[Len(codes)]

FallbackCode(codes) == codes[1]

\* lines 396-401; codes is the tuple _update_lang_data returned
Fallback(token, codes, silent) ==
    IF ~silent THEN ValueError
    ELSE IF Len(codes) = 0 THEN IndexError
    ELSE IF FallbackCode(codes) \in BETTER_LOWER THEN Lower(token)
    ELSE token

\* the body of lemmatize after _update_lang_data, on the loaded langdata
LemmatizeBody(token, codes, greedy, silent, initial, langdata) ==
    OrElse(FirstCandidate(token, langdata, greedy, initial, 1),
           Fallback(token, codes, silent))

\* the key of a call in the lru_cache of lemmatize
CacheKey(token, lang, greedy, silent, initial) ==
    <<token, lang, greedy, silent, initial>>

CacheKept(codes) == cache

\* cache_clear() when _update_lang_data reloads
CacheAfterUpdate(codes) ==
    IF Reloads(LANG_DATA, codes) THEN EmptyCache ELSE cache

\* a call that runs the body of lemmatize: result is what the body returns or
\* raises; lru_cache keeps what is returned
LemmatizeMiss(key, result, codes) ==
    /\ ret' = result
    /\ LANG_DATA' = UpdatedLangData(LANG_DATA, codes)
    /\ cache' = IF result \in Exceptions THEN CacheAfterUpdate(codes)
                ELSE (key :> result) @@ CacheAfterUpdate(codes)

Lemmatize(token, lang, greedy, silent, initial) ==
    /\ args' = [fn |-> "lemmatize", token |-> token, lang |-> lang,
                greedy |-> greedy, silent |-> silent, initial |-> initial]
    /\ IF CacheKey(token, lang, greedy, silent, initial) \in DOMAIN cache
       THEN /\ ret' = cache[CacheKey(token, lang, greedy, silent, initial)]
            /\ UNCHANGED <<LANG_DATA, cache>>
       ELSE IF token = NotAStr \/ lang.kind = "none"
       THEN /\ ret' = TypeError
            /\ UNCHANGED <<LANG_DATA, cache>>
       ELSE LemmatizeMiss(CacheKey(token, lang, greedy, silent, initial),
                          LemmatizeBody(token, lang.codes, greedy, silent, initial,
                                        UpdatedLangData(LANG_DATA, lang.codes)),
                          lang.codes)
    /\ calls' = calls + 1
    /\ UNCHANGED dicts

\* the for loop of is_known from the i-th loaded language on
RECURSIVE KnownFrom(_, _, _)
KnownNext(token, langdata, i, found) ==
    IF found = IndexError THEN IndexError
    ELSE IF found # None THEN True
    ELSE KnownFrom(token, langdata, i + 1)

KnownFrom(token, langdata, i) ==
    IF i > Len(langdata) THEN False
    ELSE KnownNext(token, langdata, i,
                   simple_search(token, dicts[langdata[i]], FALSE))

IsKnown(token, lang) ==
    /\ args' = [fn |-> "is_known", token |-> token, lang |-> lang]
    /\ IF token = NotAStr \/ lang.kind = "none"
       THEN /\ ret' = TypeError
            /\ UNCHANGED <<LANG_DATA, cache>>
       ELSE /\ ret' = KnownFrom(token, UpdatedLangData(LANG_DATA, lang.codes), 1)
            /\ LANG_DATA' = UpdatedLangData(LANG_DATA, lang.codes)
            /\ cache' = CacheAfterUpdate(lang.codes)
    /\ calls' = calls + 1
    /\ UNCHANGED dicts

(***************************************************************************)
(* The library after import, and the calls made on it                      *)
(***************************************************************************)

\* the number of calls a behaviour makes
MaxCalls == 1

Init ==
    /\ dicts \in [en : EN_TABLES, lt : LT_TABLES]
    /\ LANG_DATA = <<>>
    /\ cache = EmptyCache
    /\ args = NoCall
    /\ ret = None
    /\ calls = 0

CallLemmatize ==
    \E token \in TOKENS, lang \in LANG_ARGS, greedy \in BOOLEAN,
       silent \in BOOLEAN, initial \in BOOLEAN :
       calls < MaxCalls /\ Lemmatize(token, lang, greedy, silent, initial)

CallIsKnown ==
    \E token \in TOKENS, lang \in LANG_ARGS :
       calls < MaxCalls /\ IsKnown(token, lang)

Next == CallLemmatize \/ CallIsKnown

Spec == Init /\ [][Next]_vars

(***************************************************************************)
(* Properties of lemmatize                                                 *)
(***************************************************************************)

\* the last call was a lemmatize call that got past the type checks
LemmatizeRan ==
    /\ args.fn = "lemmatize"
    /\ args.token # NotAStr
    /\ args.lang.kind # "none"

\* the configured codes that have a table, in the configured order
Active == SelectSeq(args.lang.codes, LAMBDA code : code \in DOMAIN dicts)

\* the table of the i-th active language
ActiveTable(i) == dicts[Active[i]]

\* what the resolver of the i-th active language yields for the call
Yield(i) ==
    ReturnLemmaTable[args.token, Active[i], ActiveTable(i), args.greedy, args.initial]

NoneYields == \A i \in 1..Len(Active) : Yield(i) = None

\* C1 as stated: a token that is a key of some active table comes back as
\* the value of an active table that has it, whatever the flags and the
\* order of the languages.
C1_ExactMatchAlways ==
    (/\ LemmatizeRan
     /\ \E i \in 1..Len(Active) : args.token \in DOMAIN ActiveTable(i))
    => \E i \in 1..Len(Active) :
          /\ args.token \in DOMAIN ActiveTable(i)
          /\ ret = ActiveTable(i)[args.token]

\* the case C1 holds in: the token is a key of the first active table, it is
\* not numeric, it is looked up as it is, its value has no separator and
\* the greedy part is not run
C1_Case ==
    /\ LemmatizeRan
    /\ Len(Active) >= 1
    /\ args.token \in DOMAIN ActiveTable(1)
    /\ ~IsNumeric(args.token)
    /\ (~args.initial \/ args.token = Lower(args.token))
    /\ ~HasHyphen(ActiveTable(1)[args.token])
    /\ (~args.greedy \/ Len(args.token) <= SHORT_TOKEN)

\* C1 (amended): a non-numeric token that is a key of the table of the first
\* loaded language comes back as that table's value when the call is not
\* sentence-initial (or the token is lower-case), the value has no '-' or
\* '_', and greedy is off or the token has at most 8 characters.
C1_ExactMatchFirstLanguage ==
    C1_Case => ret = ActiveTable(1)[args.token]

C1_Witness ==
    /\ C1_Case
    /\ Len(Active) = 2
    /\ args.greedy
    /\ ret = ActiveTable(1)[args.token]
    /\ ret # args.token

\* C2: the languages are tried in the configured order, and the first one
\* whose resolver yields something decides the result.
C2_FirstLanguageWins ==
    LemmatizeRan =>
        \A i \in 1..Len(Active) :
            (Yield(i) # None /\ \A j \in 1..(i - 1) : Yield(j) = None)
            => ret = Yield(i)

C2_Witness ==
    /\ LemmatizeRan
    /\ Len(Active) = 2
    /\ Yield(1) = None
    /\ Yield(2) \notin {None} \cup Exceptions
    /\ ret = Yield(2)
    /\ ret # args.token

\* a silent call for which no language yields a candidate
SilentMiss == LemmatizeRan /\ args.silent /\ NoneYields

\* token.lower() if the code is in BETTER_LOWER, else the token
LowerIf(code) == IF code \in BETTER_LOWER THEN Lower(args.token) ELSE args.token

\* C3 as stated: after a silent miss the last attempted language decides
\* whether the token comes back lower-cased.
C3_LowerByLastAttempted ==
    (SilentMiss /\ Len(Active) >= 1) => ret = LowerIf(Active[Len(Active)])

\* C3 (amended): after a silent miss the first configured code, supported or
\* not, decides whether the token comes back lower-cased.
C3_LowerByFirstConfigured ==
    (SilentMiss /\ Len(args.lang.codes) >= 1) => ret = LowerIf(args.lang.codes[1])

C3_Witness ==
    /\ SilentMiss
    /\ Len(args.lang.codes) = 2
    /\ Len(Active) >= 1
    /\ LowerIf(args.lang.codes[1]) # LowerIf(Active[Len(Active)])
    /\ ret = LowerIf(args.lang.codes[1])

\* C4: lemmatize raises only TypeError for a token that is not a str and
\* ValueError for a miss that is not silent; a silent call on a str with a
\* code or a tuple of codes raises nothing.
C4_OnlyTwoErrors ==
    args.fn = "lemmatize" =>
        /\ ret \in Exceptions =>
              \/ args.token = NotAStr /\ ret = TypeError
              \/ args.lang.kind = "none" /\ ret = TypeError
              \/ ~args.silent /\ NoneYields /\ ret = ValueError
        /\ (LemmatizeRan /\ args.silent) => ret \notin Exceptions

\* C5 as stated: a key of the active table that maps to itself comes back
\* unchanged.
C5_IdempotentAlways ==
    (/\ LemmatizeRan
     /\ Len(Active) = 1
     /\ args.token \in DOMAIN ActiveTable(1)
     /\ ActiveTable(1)[args.token] = args.token)
    => ret = args.token

C5_Case ==
    /\ LemmatizeRan
    /\ Len(Active) >= 1
    /\ args.token \in DOMAIN ActiveTable(1)
    /\ ActiveTable(1)[args.token] = args.token
    /\ ~HasHyphen(args.token)
    /\ (~args.initial \/ args.token = Lower(args.token))

\* C5 (amended): a key of the first loaded language's table that maps to
\* itself and has no '-' or '_' comes back unchanged when the call is not
\* sentence-initial (or the key is lower-case), for every greedy setting.
C5_IdempotentPlainLemma ==
    C5_Case => ret = args.token

C5_Witness ==
    /\ C5_Case
    /\ args.greedy
    /\ args.token # Lower(args.token)
    /\ ret = args.token

(***************************************************************************)
(* _levenshtein_dist called on its own                                     *)
(***************************************************************************)

\* the strings the distance is taken of: up to MaxLen characters of ALPHABET
MaxLen == 3

ALPHABET == {"a", "b"}

STRINGS == UNION { [1..n -> ALPHABET] : n \in 0..MaxLen }

\* nothing is loaded and nothing is cached while a helper is called on its own
Idle ==
    /\ dicts = <<>>
    /\ LANG_DATA = <<>>
    /\ cache = EmptyCache
    /\ ret = None
    /\ calls = 0

InitLev ==
    /\ Idle
    /\ args \in [fn : {"strings"}, a : STRINGS, b : STRINGS, c : STRINGS]

\* the distances between the strings a, b and c, each by its own call
CallLevenshtein ==
    /\ args.fn = "strings"
    /\ args' = [args EXCEPT !.fn = "levenshtein_dist"]
    /\ ret' = [ab |-> levenshtein_dist(args.a, args.b),
               ba |-> levenshtein_dist(args.b, args.a),
               ac |-> levenshtein_dist(args.a, args.c),
               cb |-> levenshtein_dist(args.c, args.b)]
    /\ calls' = calls + 1
    /\ UNCHANGED <<dicts, LANG_DATA, cache>>

NextLev == CallLevenshtein

SpecLev == InitLev /\ [][NextLev]_vars

\* the strings one insertion, deletion or substitution away from s, none
\* longer than MaxLen
Deletions(s) == { SubSeq(s, 1, i - 1) \o SubSeq(s, i + 1, Len(s)) : i \in 1..Len(s) }

Substitutions(s) == { [s EXCEPT ![i] = ch] : i \in 1..Len(s), ch \in ALPHABET }

Insertions(s) ==
    IF Len(s) >= MaxLen THEN {}
    ELSE { SubSeq(s, 1, i) \o <<ch>> \o SubSeq(s, i + 1, Len(s)) :
             i \in 0..Len(s), ch \in ALPHABET }

OneEdit(s) == Deletions(s) \cup Substitutions(s) \cup Insertions(s)

\* the least number of edits after which b is among the strings reached,
\* reached being the strings k edits or fewer away from the start
RECURSIVE EditsTo(_, _, _)
EditsTo(reached, b, k) ==
    IF b \in reached THEN k
    ELSE EditsTo(reached \cup UNION { OneEdit(s) : s \in reached }, b, k + 1)

\* the minimum number of single-character edits turning a into b
MinEdits == [a \in STRINGS, b \in STRINGS |-> EditsTo({a}, b, 0)] @@ <<>>

LevCalled == args.fn = "levenshtein_dist"

\* C6: _levenshtein_dist is a non-negative integer, the minimum number of
\* single-character insertions, deletions and substitutions turning a into
\* b, zero iff a = b, symmetric, and it satisfies the triangle inequality.
C6_LevenshteinIsMetric ==
    LevCalled =>
        /\ ret.ab \in Nat
        /\ ret.ab = MinEdits[args.a, args.b]
        /\ (ret.ab = 0) <=> (args.a = args.b)
        /\ ret.ab = ret.ba
        /\ ret.ab <= ret.ac + ret.cb

C6_Witness ==
    /\ LevCalled
    /\ Len(args.a) > Len(args.b)
    /\ ret.ab = 3
    /\ ret.ac + ret.cb = 3
    /\ ret.ac > 0
    /\ ret.cb > 0

(***************************************************************************)
(* _greedy_search called on its own                                        *)
(***************************************************************************)

\* the most entries of a table and the most steps asked for
MaxEntries == 2

MaxSteps == 2

GREEDY_WORDS == { <<"a">>, <<"a","a">>, <<"a","b">>, <<"a","a","a">>, <<"a","b","b">> }

\* every table of at most MaxEntries entries over the words, chains, cycles
\* and self-mappings among them
GREEDY_TABLES ==
    UNION { [keys -> GREEDY_WORDS] :
              keys \in { K \in SUBSET GREEDY_WORDS : Cardinality(K) <= MaxEntries } }

\* the edit distances allowed per hop: the default and a tight one
DISTANCES == {1, 5}

InitGreedy ==
    /\ Idle
    /\ args \in [fn : {"words"}, candidate : GREEDY_WORDS, datadict : GREEDY_TABLES,
                 steps : 0..MaxSteps, distance : DISTANCES]

\* ret holds the candidate returned and the number of hops the loop took
CallGreedySearch ==
    /\ args.fn = "words"
    /\ args' = [args EXCEPT !.fn = "greedy_search"]
    /\ ret' = GreedyLoop(args.candidate, args.datadict, args.steps, args.distance, 0)
    /\ calls' = calls + 1
    /\ UNCHANGED <<dicts, LANG_DATA, cache>>

NextGreedy == CallGreedySearch

SpecGreedy == InitGreedy /\ [][NextGreedy]_vars

GreedyCalled == args.fn = "greedy_search"

\* C7: _greedy_search takes at most `steps` hops, steps = 0 included, and
\* returns its input unchanged or a string strictly shorter than its input.
C7_AtMostStepsHops ==
    GreedyCalled =>
        /\ ret.hops <= args.steps
        /\ \/ ret.candidate = args.candidate
           \/ Len(ret.candidate) < Len(args.candidate)

(***************************************************************************)
(* langdetect.py: prepare_text, lang_detector                              *)
(*                                                                         *)
(* A text is a sequence of characters.  A dict or a Counter is the         *)
(* sequence of its <<key, value>> items in insertion order.  A proportion  *)
(* n / len(tokens) is held by its numerator n: within one call every       *)
(* proportion has the denominator len(tokens), so two of them compare as   *)
(* their numerators do.  What a call gives is [results |-> the list] when  *)
(* it returns and [raised |-> the exception] when it raises.               *)
(***************************************************************************)

\* the least length of a match of SPLIT_INPUT
MIN_TOKEN_LEN == 3

\* the number of tokens prepare_text keeps
SAMPLE_LIMIT == 1000

\* the matches so far with the run of letters that just ended, if it is one
Flush(matches, run) ==
    IF Len(run) >= MIN_TOKEN_LEN THEN Append(matches, run) ELSE matches

\* SPLIT_INPUT.finditer(text) from the i-th character on: the maximal runs of
\* letters that are long enough, run being the run the scan is in
RECURSIVE MatchesFrom(_, _, _, _)
MatchesFrom(text, i, run, matches) ==
    IF i > Len(text) THEN Flush(matches, run)
    ELSE IF IsAlphaCh(text[i])
    THEN MatchesFrom(text, i + 1, Append(run, text[i]), matches)
    ELSE MatchesFrom(text, i + 1, <<>>, Flush(matches, run))

Matches(text) == MatchesFrom(text, 1, <<>>, <<>>)

HasKey(items, key) == \E k \in 1..Len(items) : items[k][1] = key

\* d[key] = value on a dict: a key it has keeps its place
DictSet(items, key, value) ==
    IF HasKey(items, key)
    THEN [k \in 1..Len(items) |-> IF items[k][1] = key THEN <<key, value>> ELSE items[k]]
    ELSE Append(items, <<key, value>>)

\* d[key] of a key the dict has
DictGet(items, key) == items[CHOOSE k \in 1..Len(items) : items[k][1] = key][2]

\* Counter(seq) from the i-th element on
RECURSIVE CounterFrom(_, _, _)
CounterFrom(seq, i, counter) ==
    IF i > Len(seq) THEN counter
    ELSE CounterFrom(seq, i + 1,
                     DictSet(counter, seq[i],
                             IF HasKey(counter, seq[i])
                             THEN DictGet(counter, seq[i]) + 1 ELSE 1))

Counter(seq) == CounterFrom(seq, 1, <<>>)

InsertAt(sorted, item, k) ==
    SubSeq(sorted, 1, k) \o <<item>> \o SubSeq(sorted, k + 1, Len(sorted))

\* an item put into a list sorted by descending value, behind the items that
\* do not come after it (the sort is stable)
InsertAsc(sorted, item) ==
    InsertAt(sorted, item,
             Cardinality({ k \in 1..Len(sorted) : sorted[k][2] <= item[2] }))

InsertDesc(sorted, item) ==
    InsertAt(sorted, item,
             Cardinality({ k \in 1..Len(sorted) : sorted[k][2] >= item[2] }))

\* sorted(items, key=itemgetter(1), reverse=True)
RECURSIVE SortedFrom(_, _, _)
SortedFrom(items, i, sorted) ==
    IF i > Len(items) THEN sorted
    ELSE SortedFrom(items, i + 1, InsertDesc(sorted, items[i]))

SortedDesc(items) == SortedFrom(items, 1, <<>>)

Take(seq, n) == SubSeq(seq, 1, IF Len(seq) < n THEN Len(seq) ELSE n)

Keys(items) == [k \in 1..Len(items) |-> items[k][1]]

\* Counter.most_common(n)
MostCommon(counter, n) == Take(SortedDesc(counter), n)

prepare_text(text) == Keys(MostCommon(Counter(Matches(text)), SAMPLE_LIMIT))

\* the pieces the texts are made of: words, the last one behind a run of
\* letters too short for a token and a digit
buildingup == building \o <<"u","p">>
by2buildingup == <<"b","y","2">> \o buildingup

DETECT_WORDS == <<rose, cats, buildingly, by2buildingup>>

\* the tables of the languages detected: "buildingly" and "buildingup" are
\* not keys of the English one, and resolve in it by an affix of "building"
DETECT_EN == (rose :> rise) @@ (cats :> cat) @@ (building :> build)

DETECT_LT_ENTRIES ==
    (rose :> roze) @@ (namai :> namas) @@ (cats :> cats) @@ (buildingly :> buildingly)

DETECT_LT_TABLES == { Without(DETECT_LT_ENTRIES, X) : X \in SUBSET {cats, buildingly} }

RangeOf(seq) == { seq[i] : i \in 1..Len(seq) }

\* the tokens the texts have
DETECT_TOKENS == UNION { RangeOf(Matches(word)) : word \in RangeOf(DETECT_WORDS) }

\* _return_lemma(token, langdict, greedy=True, lang=langcode) on the tokens
\* and the tables detected, worked out once
ExtensiveLemmaTable ==
    [token \in DETECT_TOKENS, langcode \in LOADABLE,
     langdict \in {DETECT_EN} \cup DETECT_LT_TABLES
       |-> return_lemma(token, langdict, TRUE, langcode, FALSE)] @@ <<>>

\* lines 51-55: whether the token is counted for the language
InTarget(token, langcode, langdict, extensive) ==
    IF extensive THEN ExtensiveLemmaTable[token, langcode, langdict] # None
    ELSE simple_search(token, langdict, FALSE) # None

\* found.update(in_target)
FoundLast(found, in_target) == RangeOf(in_target)

Found(found, in_target) == found \cup RangeOf(in_target)

\* the for loop over langdata from its i-th language on, then line 59:
\* myresults with the entry 'unk'
RECURSIVE DetectFrom(_, _, _, _, _, _)
DetectLang(tokens, langdata, extensive, i, myresults, found, in_target) ==
    DetectFrom(tokens, langdata, extensive, i + 1,
               DictSet(myresults, langdata[i][1], Len(in_target)),
               Found(found, in_target))

DetectFrom(tokens, langdata, extensive, i, myresults, found) ==
    IF i > Len(langdata)
    THEN DictSet(myresults, "unk", Len(tokens) - Cardinality(found))
    ELSE DetectLang(tokens, langdata, extensive, i, myresults, found,
                    SelectSeq(tokens,
                              LAMBDA token : InTarget(token, langdata[i][1],
                                                      langdata[i][2], extensive)))

\* lines 45-60: results
Ranking(tokens, langdata, extensive) ==
    SortedDesc(DetectFrom(tokens, langdata, extensive, 1, <<>>, {}))

\* results[0][1] == results[1][1]
Tied(results) == results[1][2] = results[2][2]

\* what a call gives that made one more pass over the tokens than the call
\* it returns the result of
Rerun(given) ==
    IF "results" \in DOMAIN given THEN [given EXCEPT !.passes = @ + 1] ELSE given

\* lang_detector; passes is the number of passes made over the tokens
RECURSIVE lang_detector(_, _, _)
DetectResults(text, langdata, extensive, results) ==
    IF extensive THEN [results |-> results, passes |-> 1]
    ELSE IF Len(results) < 2 THEN [raised |-> IndexError]
    ELSE IF Tied(results) THEN Rerun(lang_detector(text, langdata, TRUE))
    ELSE [results |-> results, passes |-> 1]

DetectTokens(text, langdata, extensive, tokens) ==
    IF Len(tokens) = 0 THEN [raised |-> ZeroDivisionError]
    ELSE DetectResults(text, langdata, extensive,
                       Ranking(tokens, langdata, extensive))

lang_detector(text, langdata, extensive) ==
    DetectTokens(text, langdata, extensive, prepare_text(text))

(***************************************************************************)
(* lang_detector called on texts                                           *)
(***************************************************************************)

\* the most occurrences of a word in a text
MaxRepeat == 2

RECURSIVE Join(_)
Join(words) ==
    IF Len(words) = 0 THEN <<>>
    ELSE IF Len(words) = 1 THEN words[1]
    ELSE words[1] \o <<" ">> \o Join(Tail(words))

\* the words of a text in which the k-th and the later words of the list
\* occur reps[k] times each
RECURSIVE Occurring(_, _)
Occurring(reps, k) ==
    IF k > Len(DETECT_WORDS) THEN <<>>
    ELSE [i \in 1..reps[k] |-> DETECT_WORDS[k]] \o Occurring(reps, k + 1)

\* the texts: every word up to MaxRepeat times, a space between two words
TEXTS == { Join(Occurring(reps, 1)) : reps \in [1..Len(DETECT_WORDS) -> 0..MaxRepeat] }

\* the codes of the languages detected, in the order given
CODE_LISTS == { <<>>, <<"en">>, <<"lt">>, <<"en", "lt">>, <<"lt", "en">>, <<"en", "en">> }

\* langdata: the (code, dict) pairs of the codes
LangData(codes) == [i \in 1..Len(codes) |-> <<codes[i], dicts[codes[i]]>>]

InitDetect ==
    /\ dicts \in [en : {DETECT_EN}, lt : DETECT_LT_TABLES]
    /\ LANG_DATA = <<>>
    /\ cache = EmptyCache
    /\ ret = None
    /\ calls = 0
    /\ args \in { [fn |-> "text", text |-> text, langdata |-> LangData(codes),
                   extensive |-> extensive] :
                    text \in TEXTS, codes \in CODE_LISTS, extensive \in BOOLEAN }

CallLangDetector ==
    /\ args.fn = "text"
    /\ args' = [args EXCEPT !.fn = "lang_detector"]
    /\ ret' = lang_detector(args.text, args.langdata, args.extensive)
    /\ calls' = calls + 1
    /\ UNCHANGED <<dicts, LANG_DATA, cache>>

NextDetect == CallLangDetector

SpecDetect == InitDetect /\ [][NextDetect]_vars

(***************************************************************************)
(* Properties of lang_detector                                             *)
(***************************************************************************)

DetectCalled == args.fn = "lang_detector"

Returned(given) == "results" \in DOMAIN given

\* the tokens sampled from each text, worked out once, and those sampled
\* from the text of the call
SampledFrom == [text \in TEXTS |-> RangeOf(prepare_text(text))] @@ <<>>

Sampled == SampledFrom[args.text]

\* whether the i-th language of the call resolves the token in a mode
Resolves(token, i, extensive) ==
    IF extensive
    THEN ExtensiveLemmaTable[token, args.langdata[i][1], args.langdata[i][2]] # None
    ELSE simple_search(token, args.langdata[i][2], FALSE) # None

\* the entries of a ranking: the configured codes and 'unk'
Entries == { args.langdata[i][1] : i \in 1..Len(args.langdata) } \cup {"unk"}

\* the number of sampled tokens behind the proportion of an entry in a mode:
\* for 'unk' the tokens no configured language resolves, for a code those
\* its language resolves
MatchCount(entry, extensive) ==
    IF entry = "unk"
    THEN Cardinality({ token \in Sampled :
                         \A i \in 1..Len(args.langdata) : ~Resolves(token, i, extensive) })
    ELSE Cardinality({ token \in Sampled :
                         \E i \in 1..Len(args.langdata) :
                            /\ args.langdata[i][1] = entry
                            /\ Resolves(token, i, extensive) })

\* the two highest proportions of a mode are equal
TopTied(extensive) ==
    \E e1 \in Entries, e2 \in Entries :
        /\ e1 # e2
        /\ MatchCount(e1, extensive) = MatchCount(e2, extensive)
        /\ \A e \in Entries : MatchCount(e, extensive) <= MatchCount(e1, extensive)

\* results is a ranking of a mode: one item per entry with the proportion of
\* the mode, by descending proportion
IsRankingOf(results, extensive) ==
    /\ Len(results) = Cardinality(Entries)
    /\ { results[k][1] : k \in 1..Len(results) } = Entries
    /\ \A k \in 1..Len(results) : results[k][2] = MatchCount(results[k][1], extensive)
    /\ \A k \in 1..(Len(results) - 1) : results[k][2] >= results[k + 1][2]

\* the proportion of 'unk' in what a call returned
Unknown(given) == DictGet(given.results, "unk")

\* the fast-mode call on the first n languages of the call
OnFirst(n) == lang_detector(args.text, SubSeq(args.langdata, 1, n), FALSE)

\* the fast-mode call on the first n languages makes the extensive pass
RerunsOnFirst(n) == Returned(OnFirst(n)) /\ OnFirst(n).passes = 2

\* C8 as stated: for calls in the default fast mode, the unknown proportion
\* for a list of languages is never above the one for a shorter list it
\* extends, whether or not either call makes the extensive pass.
C8_UnknownNeverIncreases ==
    (DetectCalled /\ ~args.extensive /\ Returned(ret)) =>
        \A n \in 1..(Len(args.langdata) - 1) :
            Returned(OnFirst(n)) => Unknown(ret) <= Unknown(OnFirst(n))

\* C8 (amended): for calls in the default fast mode, the unknown proportion
\* for a list of languages is never above the one for a shorter list it
\* extends when the call on the shorter list does not make the extensive
\* pass, or the call on the longer list makes it too.
C8_UnknownNeverIncreasesInOneMode ==
    (DetectCalled /\ ~args.extensive /\ Returned(ret)) =>
        \A n \in 1..(Len(args.langdata) - 1) :
            (Returned(OnFirst(n)) /\ (~RerunsOnFirst(n) \/ ret.passes = 2))
            => Unknown(ret) <= Unknown(OnFirst(n))

C8_Witness ==
    /\ DetectCalled
    /\ ~args.extensive
    /\ Returned(ret)
    /\ Len(args.langdata) = 2
    /\ Returned(OnFirst(1))
    /\ ~RerunsOnFirst(1)
    /\ ret.passes = 2
    /\ Unknown(ret) < Unknown(OnFirst(1))

\* C9: a fast-mode call returns the extensive-mode ranking exactly when the
\* two highest fast-mode proportions are equal, and the fast-mode ranking
\* otherwise; an extensive-mode call makes one pass; the list returned is
\* sorted by descending proportion, with one item per configured code and
\* one for 'unk'.
C9_RerunExactlyOnTie ==
    (DetectCalled /\ Returned(ret)) =>
        /\ ret.passes = (IF ~args.extensive /\ TopTied(FALSE) THEN 2 ELSE 1)
        /\ IsRankingOf(ret.results, args.extensive \/ TopTied(FALSE))
        /\ (ret.passes = 2) =>
              ret.results = lang_detector(args.text, args.langdata, TRUE).results

C9_Witness ==
    /\ DetectCalled
    /\ ~args.extensive
    /\ Returned(ret)
    /\ Len(args.langdata) = 2
    /\ Len(ret.results) = 3
    /\ ret.passes = 2
    /\ ~IsRankingOf(ret.results, FALSE)
    /\ ret.results[1][2] > ret.results[2][2]

(***************************************************************************)
(* _decompose and _affix_search called on their own                        *)
(***************************************************************************)

believe == <<"b","e","l","i","e","v","e">>
unbelievable == <<"u","n","b","e","l","i","e","v","a","b","l","e">>
unbelievably == <<"u","n","b","e","l","i","e","v","a","b","l","y">>
unbelievables == unbelievable \o <<"s">>
buildingcats == building \o cats
built == <<"b","u","i","l","t">>

DECOMPOSE_TOKENS == {unbelievably, unbelievables, buildings, buildingcats, buildingly, cats}

\* the tables: any of these entries
DECOMPOSE_ENTRIES ==
    (unbelievable :> believe) @@ (building :> build) @@ (build :> built) @@
    (cats :> cat) @@ (cat :> cat)

DECOMPOSE_TABLES ==
    { Without(DECOMPOSE_ENTRIES, X) : X \in SUBSET (DOMAIN DECOMPOSE_ENTRIES) }

\* the affix lengths asked for, the default of _decompose (0) and the
\* ceilings of _return_lemma among them
AFFIX_LENGTHS == 0..LONGAFFIXLEN

InitDecompose ==
    /\ Idle
    /\ args \in [fn : {"token"}, token : DECOMPOSE_TOKENS, datadict : DECOMPOSE_TABLES,
                 affixlen : AFFIX_LENGTHS]

\* _decompose(token, datadict, affixlen): ret is the pair (candidate, plan_b)
CallDecompose ==
    /\ args.fn = "token"
    /\ args' = [args EXCEPT !.fn = "decompose"]
    /\ ret' = decompose(args.token, args.datadict, args.affixlen)
    /\ calls' = calls + 1
    /\ UNCHANGED <<dicts, LANG_DATA, cache>>

\* _affix_search(token, datadict, maxlen=affixlen)
CallAffixSearch ==
    /\ args.fn = "token"
    /\ args' = [args EXCEPT !.fn = "affix_search"]
    /\ ret' = affix_search(args.token, args.datadict, args.affixlen)
    /\ calls' = calls + 1
    /\ UNCHANGED <<dicts, LANG_DATA, cache>>

NextDecompose == CallDecompose \/ CallAffixSearch

SpecDecompose == InitDecompose /\ [][NextDecompose]_vars

\* _affix_search with maxlen 3 on a token, the table holding only
\* "unbelievable" -> "believe"
ElisionExample(token) ==
    /\ args.fn = "affix_search"
    /\ args.token = token
    /\ args.datadict = (unbelievable :> believe)
    /\ args.affixlen = 3

\* the lemma of the head of the split with a tail of `count` characters
HeadLemma(count) == simple_search(Prefix(args.token, count), args.datadict, FALSE)

\* the split with a tail of `count` characters is the first one _decompose
\* comes to whose head is found
FirstHeadFound(count) ==
    /\ count \in 1..(Len(args.token) - MINCOMPLEN)
    /\ HeadLemma(count) # None
    /\ \A shorter \in 1..(count - 1) : HeadLemma(shorter) = None

\* C10 as stated: with only "unbelievable" -> "believe" in the table,
\* _affix_search with maxlen 3 resolves "unbelievably" to "believe"; and
\* _decompose returns the lemma of the head whenever the head is found at a
\* split whose tail is at most affixlen characters long.
C10_AffixElision ==
    /\ ElisionExample(unbelievably) => ret = believe
    /\ args.fn = "decompose" =>
          \A count \in 1..(Len(args.token) - 1) :
              (count <= args.affixlen /\ HeadLemma(count) # None)
              => ret[1] = HeadLemma(count)

\* C10 (amended): with only "unbelievable" -> "believe" in the table,
\* _affix_search with maxlen 3 finds nothing for "unbelievably" and resolves
\* "unbelievables" to "believe"; and _decompose returns the lemma of the
\* head, and no plan_b, when the first split whose head is found, among
\* the splits that leave a head of at least MINCOMPLEN characters, has a
\* tail of at most affixlen characters.
C10_AffixElisionAtFirstHead ==
    /\ ElisionExample(unbelievably) => ret = None
    /\ ElisionExample(unbelievables) => ret = believe
    /\ args.fn = "decompose" =>
          \A count \in 1..Len(args.token) :
              (count <= args.affixlen /\ FirstHeadFound(count))
              => ret = <<HeadLemma(count), None>>

C10_Witness ==
    /\ args.fn = "decompose"
    /\ args.affixlen = 2
    /\ FirstHeadFound(2)
    /\ HeadLemma(5) # None
    /\ HeadLemma(5) # HeadLemma(2)
    /\ ret = <<HeadLemma(2), None>>

(***************************************************************************)
(* The scan of _decompose over split points                                *)
(***************************************************************************)

road == <<"r","o","a","d">>
work == <<"w","o","r","k">>
site == <<"s","i","t","e">>
sites == site \o <<"s">>
roadwork == road \o work
worksite == work \o site
roadworks == roadwork \o <<"s">>
roadworksite == roadwork \o site

SCAN_TOKENS == {roadworksite, Capitalize(roadworksite), roadworks, worksite \o site}

\* the tables: any of these entries, "site" with a lemma longer than itself,
\* of its own length or shorter
SCAN_ENTRIES(lemma) ==
    (roadwork :> roadwork) @@ (site :> lemma) @@ (road :> road) @@ (worksite :> work)

SCAN_TABLES ==
    { Without(SCAN_ENTRIES(lemma), X) :
        lemma \in {sites, site, <<"s","i","t">>}, X \in SUBSET {roadwork, site, road, worksite} }

InitScan ==
    /\ Idle
    /\ args \in [fn : {"token"}, token : SCAN_TOKENS, datadict : SCAN_TABLES,
                 affixlen : AFFIX_LENGTHS]

SpecScan == InitScan /\ [][NextDecompose]_vars

\* the tail of the split with a tail of `count` characters, as _decompose
\* looks it up, and its lemma
TailPart(count) == CasedPart2(args.token, count)

TailLemma(count) == simple_search(TailPart(count), args.datadict, FALSE)

\* what the split with a tail of `count` characters yields on its own: the
\* pair (candidate, plan_b), nothing recorded before it
SplitYield(count) ==
    IF HeadLemma(count) = None THEN <<None, None>>
    ELSE IF count <= args.affixlen THEN <<HeadLemma(count), None>>
    ELSE IF TailLemma(count) = None THEN <<None, None>>
    ELSE DecomposeBoth(Prefix(args.token, count), TailPart(count), TailLemma(count),
                       args.datadict, args.affixlen, None)

\* the split points _decompose comes to
SplitPoints == 1..(Len(args.token) - MINCOMPLEN)

\* the split yields a primary candidate
YieldsPrimary(count) == SplitYield(count)[1] # None

\* head and tail of the split are both found, the tail not being an affix
BothFound(count) ==
    /\ HeadLemma(count) # None
    /\ count > args.affixlen
    /\ TailLemma(count) # None

\* C11 as stated: _decompose stops only at the first split point that yields
\* a primary candidate and returns it, passing over the split points where
\* head and tail are found but only a fallback or nothing comes out; the
\* fallback comes back only when no split point yields a primary candidate.
C11_ScanPassesFallbacks ==
    args.fn = "decompose" =>
        /\ \A count \in SplitPoints :
              (YieldsPrimary(count) /\ \A c \in 1..(count - 1) : ~YieldsPrimary(c))
              => ret[1] = SplitYield(count)[1]
        /\ (\A count \in SplitPoints : ~YieldsPrimary(count)) => ret[1] = None

\* the scan ends at this split: its head is found, and its tail is an affix
\* or is found too
EndsScan(count) ==
    /\ HeadLemma(count) # None
    /\ (count <= args.affixlen \/ TailLemma(count) # None)

\* C11 (amended): _decompose scans the split points by growing tail length
\* and stops at the first one whose head is found and whose tail is an affix
\* or is found too, whatever that split yields: it returns the primary
\* candidate and the fallback of that split alone, and (None, None) when
\* there is no such split.
C11_ScanEndsWhereBothFound ==
    args.fn = "decompose" =>
        /\ \A count \in SplitPoints :
              (EndsScan(count) /\ \A c \in 1..(count - 1) : ~EndsScan(c))
              => ret = SplitYield(count)
        /\ (\A count \in SplitPoints : ~EndsScan(count)) => ret = <<None, None>>

C11_Witness ==
    /\ args.fn = "decompose"
    /\ \E count \in SplitPoints, later \in SplitPoints :
          /\ count < later
          /\ BothFound(count)
          /\ \A c \in 1..(count - 1) : ~EndsScan(c)
          /\ SplitYield(count)[1] = None
          /\ SplitYield(count)[2] # None
          /\ YieldsPrimary(later)
          /\ ret = SplitYield(count)

(***************************************************************************)
(* The cache of lemmatize over several calls                               *)
(***************************************************************************)

\* the number of calls a behaviour makes on the cache
MaxCacheCalls == 3

LemmatizeAgain ==
    \E token \in {Rose, cats, empty, NotAStr},
       lang \in {NoLang, StrLang("en"), StrLang("lt"), TupleLang(<<"lt", "en">>),
                 TupleLang(<<UNSUPPORTED, "lt">>)},
       greedy \in BOOLEAN, silent \in BOOLEAN :
       calls < MaxCacheCalls /\ Lemmatize(token, lang, greedy, silent, FALSE)

IsKnownAgain ==
    \E token \in {Rose, empty},
       lang \in {NoLang, StrLang("en"), StrLang("lt"), TupleLang(<<"lt", "en">>),
                 TupleLang(<<UNSUPPORTED, "lt">>)} :
       calls < MaxCacheCalls /\ IsKnown(token, lang)

SpecCache == Init /\ [][LemmatizeAgain \/ IsKnownAgain]_vars

\* what the body of lemmatize gives for the arguments of a cache key, run
\* without the cache on the languages the key asks for
Uncached(key) ==
    LemmatizeBody(key[1], key[2].codes, key[3], key[4], key[5],
                  load_data(key[2].codes))

\* the key of the call made
KeyOfCall ==
    CacheKey(args.token, args.lang, args.greedy, args.silent, args.initial)

\* C12: after any sequence of lemmatize and is_known calls, every entry in
\* the cache of lemmatize is for the languages now in LANG_DATA and holds
\* what the uncached body gives for its key, and a lemmatize call that gets
\* past the type checks, cache hit or miss, returns or raises what the
\* uncached body does for the languages it asked for.
C12_CacheFollowsLangData ==
    /\ \A key \in DOMAIN cache :
          /\ load_data(key[2].codes) = LANG_DATA
          /\ cache[key] = Uncached(key)
    /\ (/\ args.fn = "lemmatize"
        /\ args.token # NotAStr
        /\ args.lang.kind # "none")
       => ret = Uncached(KeyOfCall)

\* a cache hit: a call whose lang has an unsupported code reloads and clears
\* the cache whenever it runs the body, so with two entries in the cache the
\* call was answered from the cache
C12_Witness ==
    /\ args.fn = "lemmatize"
    /\ args.lang = TupleLang(<<UNSUPPORTED, "lt">>)
    /\ args.token = Rose
    /\ Cardinality(DOMAIN cache) >= 2
    /\ KeyOfCall \in DOMAIN cache
    /\ ret = roze
    /\ \E key \in DOMAIN cache : key[2] = StrLang("lt")

====
